---- MODULE Spec2Model ----
(***************************************************************************)
(* Model of calculate_mortgage_cash_flows_with_defaults                    *)
(* (src/mortgage_cashflow_calculator.py): the scheduled-amortization curve *)
(* builder followed by the month-by-month cash-flow recursion.             *)
(*                                                                         *)
(* Numbers.  The program computes in IEEE doubles.  A number is modelled   *)
(* as a pair <<n, d>>: for d > 0 the exact rational n/d in lowest terms,   *)
(* and for d = 0 one of the three non-finite doubles, <<1,0>> = +inf,      *)
(* <<-1,0>> = -inf, <<0,0>> = nan.  Rounding is not modelled; division by  *)
(* zero is, with the two behaviours the program has: a Python float        *)
(* division raises ZeroDivisionError, a numpy.float64 division returns     *)
(* inf or nan.                                                             *)
(***************************************************************************)
EXTENDS Integers, Sequences, FiniteSets, TLC

\* ------------------------------------------------------------------------
\* Bounds of the model
\* ------------------------------------------------------------------------
MaxWam == 3
MaxMtl == 3

\* ------------------------------------------------------------------------
\* Inputs enumerated by Init
\* ------------------------------------------------------------------------
Balances == {-100, 0, 100}
WamValues == (-2)..MaxWam
WacValues == {0, 600, 1200}
SmmValues == {0, 50}
MdrValues == {0, 50, 90}
MtlValues == 0..MaxMtl
SeverityValues == {0, 20, 100}

\* ------------------------------------------------------------------------
\* Arithmetic on modelled doubles
\* ------------------------------------------------------------------------
\* The operators below hand their arguments to functions, so that an
\* argument is evaluated once however often the body uses it.
Num == Int \X Int

Abs(a) == IF a < 0 THEN -a ELSE a

Sgn(a) == IF a < 0 THEN -1 ELSE IF a > 0 THEN 1 ELSE 0

GCDf[a \in Nat, b \in Nat] == IF b = 0 THEN a ELSE GCDf[b, a % b]

GCD(a, b) == GCDf[a, b]

Normf[p \in Num] ==
    LET g == GCDf[Abs(p[1]), p[2]] IN <<p[1] \div g, p[2] \div g>>

Norm(n, d) == Normf[<<n, d>>]

R(n) == <<n, 1>>

Zero == <<0, 1>>

One == <<1, 1>>

PosInf == <<1, 0>>

NegInf == <<-1, 0>>

NaN == <<0, 0>>

None == <<>>

IsFinite(x) == x[2] > 0

IsNaN(x) == x = NaN

RNeg(x) == <<-x[1], x[2]>>

RAddf[x \in Num, y \in Num] ==
    IF IsNaN(x) \/ IsNaN(y) THEN NaN
    ELSE IF IsFinite(x) /\ IsFinite(y) THEN
        LET g == GCDf[x[2], y[2]]
        IN  Normf[<<x[1] * (y[2] \div g) + y[1] * (x[2] \div g),
                    x[2] * (y[2] \div g)>>]
    ELSE IF IsFinite(y) THEN x
    ELSE IF IsFinite(x) THEN y
    ELSE IF x = y THEN x ELSE NaN

RAdd(x, y) == RAddf[x, y]

RSub(x, y) == RAddf[x, RNeg(y)]

RMulf[x \in Num, y \in Num] ==
    IF IsNaN(x) \/ IsNaN(y) THEN NaN
    ELSE IF IsFinite(x) /\ IsFinite(y) THEN
        LET g1 == GCDf[Abs(x[1]), y[2]]
            g2 == GCDf[Abs(y[1]), x[2]]
        IN  Normf[<<(x[1] \div g1) * (y[1] \div g2),
                    (x[2] \div g2) * (y[2] \div g1)>>]
    ELSE IF Sgn(x[1]) * Sgn(y[1]) = 0 THEN NaN
    ELSE <<Sgn(x[1]) * Sgn(y[1]), 0>>

RMul(x, y) == RMulf[x, y]

\* 1 / y for a finite y # 0
Inverse(y) == <<Sgn(y[1]) * y[2], Abs(y[1])>>

\* numpy.float64 true division: x / 0 is inf or nan, never an exception
NpDivf[x \in Num, y \in Num] ==
    IF IsNaN(x) \/ IsNaN(y) THEN NaN
    ELSE IF IsFinite(y) /\ y[1] # 0 THEN
        IF IsFinite(x) THEN RMulf[x, Inverse(y)]
        ELSE <<Sgn(x[1]) * Sgn(y[1]), 0>>
    ELSE IF IsFinite(y) THEN
        IF x[1] = 0 THEN NaN ELSE <<Sgn(x[1]), 0>>
    ELSE IF IsFinite(x) THEN Zero
    ELSE NaN

NpDiv(x, y) == NpDivf[x, y]

\* Python float true division; the caller raises ZeroDivisionError when y = 0
PyDivf[x \in Num, y \in Num] == RMulf[x, Inverse(y)]

PyDiv(x, y) == PyDivf[x, y]

\* x < y on doubles: every comparison with nan is false
RLtf[x \in Num, y \in Num] ==
    IF IsNaN(x) \/ IsNaN(y) THEN FALSE
    ELSE IF IsFinite(x) /\ IsFinite(y) THEN x[1] * y[2] < y[1] * x[2]
    ELSE IF IsFinite(x) THEN y = PosInf
    ELSE IF IsFinite(y) THEN x = NegInf
    ELSE x = NegInf /\ y = PosInf

RLt(x, y) == RLtf[x, y]

RGt(x, y) == RLtf[y, x]

RLef[x \in Num, y \in Num] == RLtf[x, y] \/ (~IsNaN(x) /\ x = y)

RLe(x, y) == RLef[x, y]

RGe(x, y) == RLef[y, x]

\* Python's min(a, b) and max(a, b) on two arguments
PyMinf[a \in Num, b \in Num] == IF RLtf[b, a] THEN b ELSE a

PyMin(a, b) == PyMinf[a, b]

PyMaxf[a \in Num, b \in Num] == IF RLtf[a, b] THEN b ELSE a

PyMax(a, b) == PyMaxf[a, b]

\* base ** (-k) for a finite base # 0 and k >= 0
PowNegf[base \in Num, k \in Nat] ==
    IF k = 0 THEN One ELSE PyDivf[PowNegf[base, k - 1], base]

PowNeg(base, k) == PowNegf[base, k]

\* ------------------------------------------------------------------------
\* State
\* ------------------------------------------------------------------------
VARIABLES
    initial_balance, wac, wam, prepay_rate_smm, default_rate_mdr,
    months_to_liquidation, loss_severity, pi_advanced,   \* the arguments
    pc,             \* position in the function body
    err,            \* the exception that ended the call, "none" if none
    i,              \* index of the curve-builder loop
    month,          \* index of the recursion loop
    sch_am,         \* scheduled amortization array, a function on 0..wam
    perf_bal_prev, fcl_prev, default_queue, results,
    scanned,        \* history: per executed month, the queue positions whose
                    \* record the recovery scan matched
    display_df      \* the value returned to the caller, None before return

params == <<initial_balance, wac, wam, prepay_rate_smm, default_rate_mdr,
            months_to_liquidation, loss_severity, pi_advanced>>

vars == <<initial_balance, wac, wam, prepay_rate_smm, default_rate_mdr,
          months_to_liquidation, loss_severity, pi_advanced,
          pc, err, i, month, sch_am, perf_bal_prev, fcl_prev, default_queue,
          results, scanned, display_df>>

\* ------------------------------------------------------------------------
\* Scheduled-amortization curve builder
\* ------------------------------------------------------------------------
PctPerYear == 1200

Pct == 100

c_monthly == PyDiv(R(wac), R(PctPerYear))

net_mortgage_rate == PyDiv(R(wac), R(PctPerYear))

\* 1 - (1 + c_monthly) ** (-k)
Discount(k) == RSub(One, PowNeg(RAdd(One, c_monthly), k))

\* the divisions of lines 60-62 raise ZeroDivisionError
CurveRaises(idx) == wam - idx > 0 /\ Discount(wam) = Zero

\* CurveValue counting one remaining month too few
CurveValueShort(idx) ==
    LET remaining_months == wam - idx - 1 IN
    IF remaining_months > 0 THEN
        LET bal == PyDiv(Discount(remaining_months), Discount(wam))
        IN  PyDiv(RMul(bal, c_monthly), Discount(wam))
    ELSE Zero

\* the value stored in sch_am[idx]
CurveValue(idx) ==
    LET remaining_months == wam - idx IN
    IF remaining_months > 0 THEN
        LET bal == PyDiv(Discount(remaining_months), Discount(wam))
        IN  PyDiv(RMul(bal, c_monthly), Discount(wam))
    ELSE Zero

\* ------------------------------------------------------------------------
\* One month of the recursion
\* ------------------------------------------------------------------------
\* EffectiveMdr without the cutoff of the last months
EffectiveMdrNoCutoff(m) == PyDiv(R(default_rate_mdr), R(Pct))

\* EffectiveMdr cutting the rate off one month early
EffectiveMdrOffByOne(m) ==
    IF m >= wam - months_to_liquidation THEN Zero
    ELSE PyDiv(R(default_rate_mdr), R(Pct))

EffectiveMdr(m) ==
    IF m > wam - months_to_liquidation THEN Zero
    ELSE PyDiv(R(default_rate_mdr), R(Pct))

Smm == PyDiv(R(prepay_rate_smm), R(Pct))

NewDef(m) == RMul(perf_bal_prev, EffectiveMdr(m))

\* Enqueue forgetting the month in recovery_month
EnqueueNoMonth(queue, new_def, m) ==
    IF RGt(new_def, Zero)
    THEN Append(queue, [amount |-> new_def,
                        recovery_month |-> months_to_liquidation])
    ELSE queue

\* Enqueue without the test new_def > 0
EnqueueAlways(queue, new_def, m) ==
    Append(queue, [amount |-> new_def,
                   recovery_month |-> m + months_to_liquidation])

Enqueue(queue, new_def, m) ==
    IF RGt(new_def, Zero)
    THEN Append(queue, [amount |-> new_def,
                        recovery_month |-> m + months_to_liquidation])
    ELSE queue

\* Matched selecting every record that is due, not only those due this month
MatchedDue(queue, m) ==
    {k \in 1..Len(queue) : queue[k].recovery_month <= m}

\* the queue positions the scan of lines 90-91 selects
Matched(queue, m) ==
    {k \in 1..Len(queue) : queue[k].recovery_month = m}

\* Contribution ignoring pi_advanced: the full amount is always recovered
ContributionFull(default, m) == default.amount

\* what one selected record adds to adb
Contribution(default, m) ==
    IF pi_advanced /\ m > 0 /\ m - 1 < wam + 1
    THEN RMul(default.amount,
              NpDiv(sch_am[m - 1], sch_am[m - months_to_liquidation]))
    ELSE default.amount

RECURSIVE AdbFrom(_, _, _)
AdbFrom(queue, k, m) ==
    IF k > Len(queue) THEN Zero
    ELSE LET rest == AdbFrom(queue, k + 1, m) IN
         IF k \in Matched(queue, m)
         THEN RAdd(Contribution(queue[k], m), rest)
         ELSE rest

Adb(queue, m) == AdbFrom(queue, 1, m)

\* AmortFactor returning the surviving fraction instead of the amortized one
AmortFactorSurvival(m) ==
    IF m > 0 /\ m < wam + 1 THEN
        IF RGt(sch_am[m - 1], Zero)
        THEN NpDiv(sch_am[m], sch_am[m - 1])
        ELSE Zero
    ELSE Zero

AmortFactor(m) ==
    IF m > 0 /\ m < wam + 1 THEN
        IF RGt(sch_am[m - 1], Zero)
        THEN RSub(One, NpDiv(sch_am[m], sch_am[m - 1]))
        ELSE Zero
    ELSE Zero

VolPrepay(amort_factor) == RMul(RMul(perf_bal_prev, amort_factor), Smm)

AmDef(new_def, adb, amort_factor) ==
    IF pi_advanced
    THEN RMul(RSub(RAdd(new_def, fcl_prev), adb), amort_factor)
    ELSE Zero

\* ActAm amortizing the newly defaulted balance as well
ActAmGross(new_def, amort_factor) == RMul(perf_bal_prev, amort_factor)

ActAm(new_def, amort_factor) == RMul(RSub(perf_bal_prev, new_def), amort_factor)

PrinLoss(adb) ==
    IF RGt(adb, Zero)
    THEN PyMin(RMul(adb, PyDiv(R(loss_severity), R(Pct))), adb)
    ELSE Zero

PrinRecov(adb, prin_loss) == PyMax(RSub(adb, prin_loss), Zero)

\* PerfBal forgetting the voluntary prepayments
PerfBalNoPrepay(new_def, vol_prepay, act_am) ==
    RSub(RSub(perf_bal_prev, new_def), act_am)

PerfBal(new_def, vol_prepay, act_am) ==
    RSub(RSub(RSub(perf_bal_prev, new_def), vol_prepay), act_am)

PoolFactor(perf_bal) == NpDiv(perf_bal, R(initial_balance))

\* InRecoveryMonth reporting a recovered amount of 0
InRecoveryMonthGe(adb) == IF RGe(adb, Zero) THEN adb ELSE None

InRecoveryMonth(adb) == IF RGt(adb, Zero) THEN adb ELSE None

\* the dictionary appended to results in month m, given the queue after the
\* month's enqueue
MonthRecord(queue, m) ==
    LET mdr == EffectiveMdr(m)
        new_def == NewDef(m)
        adb == Adb(queue, m)
        fcl0 == RSub(RAdd(new_def, fcl_prev), adb)
        amort_factor == AmortFactor(m)
        exp_am == RMul(RSub(RAdd(perf_bal_prev, fcl_prev), adb), amort_factor)
        vol_prepay == VolPrepay(amort_factor)
        am_def == AmDef(new_def, adb, amort_factor)
        act_am == ActAm(new_def, amort_factor)
        fcl == RSub(fcl0, am_def)
        exp_int == RMul(RAdd(perf_bal_prev, fcl_prev), net_mortgage_rate)
        lost_int == RMul(RAdd(new_def, fcl_prev), net_mortgage_rate)
        act_int == RSub(exp_int, lost_int)
        prin_loss == PrinLoss(adb)
        prin_recov == PrinRecov(adb, prin_loss)
        perf_bal == PerfBal(new_def, vol_prepay, act_am)
        pool_factor == PoolFactor(perf_bal)
    IN  [Month |-> m,
         PerformingBalance |-> perf_bal,
         NewDefaults |-> new_def,
         InForeclosure |-> fcl,
         PoolFactorField |-> pool_factor,
         ExpectedAmortization |-> exp_am,
         VoluntaryPrepayments |-> vol_prepay,
         AmortFromDefaults |-> am_def,
         ActualAmort |-> act_am,
         ExpectedInterest |-> exp_int,
         InterestLost |-> lost_int,
         ActualInterest |-> act_int,
         PrincipalRecovery |-> prin_recov,
         PrincipalLoss |-> prin_loss,
         InRecoveryMonthField |-> InRecoveryMonth(adb),
         DefaultRate |-> mdr,
         PrepayRate |-> Smm]

\* InRange stopping one month early
InRangeShort(m) == 1 <= m /\ m < wam

\* line 69: month is drawn from range(1, months + 1)
InRange(m) == 1 <= m /\ m <= wam

\* lines 173-175: the copy returned to the caller shows the rates in percent
DisplayRow(r) ==
    [r EXCEPT !.DefaultRate = RMul(r.DefaultRate, R(Pct)),
              !.PrepayRate = RMul(r.PrepayRate, R(Pct))]

\* ------------------------------------------------------------------------
\* Initial states and actions
\* ------------------------------------------------------------------------
Init ==
    /\ initial_balance \in Balances
    /\ wac \in WacValues
    /\ wam \in WamValues
    /\ prepay_rate_smm \in SmmValues
    /\ default_rate_mdr \in MdrValues
    /\ months_to_liquidation \in MtlValues
    /\ loss_severity \in SeverityValues
    /\ pi_advanced \in BOOLEAN
    /\ pc = "entry"
    /\ err = "none"
    /\ i = 0
    /\ month = 0
    /\ sch_am = <<>>
    /\ perf_bal_prev = Zero
    /\ fcl_prev = Zero
    /\ default_queue = <<>>
    /\ results = <<>>
    /\ scanned = <<>>
    /\ display_df = None

\* lines 45-55: the locals are set and np.zeros(months + 1) allocates the curve
Initialize ==
    /\ pc = "entry"
    /\ wam + 1 >= 0
    /\ results' = <<>>
    /\ perf_bal_prev' = R(initial_balance)
    /\ fcl_prev' = Zero
    /\ sch_am' = [k \in 0..wam |-> Zero]
    /\ i' = 0
    /\ pc' = "curve"
    /\ UNCHANGED <<params, err, month, default_queue, scanned, display_df>>

\* line 54: np.zeros of a negative length raises ValueError
AllocError ==
    /\ pc = "entry"
    /\ wam + 1 < 0
    /\ pc' = "error"
    /\ err' = "ValueError"
    /\ UNCHANGED <<params, i, month, sch_am, perf_bal_prev, fcl_prev,
                   default_queue, results, scanned, display_df>>

\* lines 57-64: one iteration of the builder loop
CurveStep ==
    /\ pc = "curve"
    /\ i <= wam
    /\ ~CurveRaises(i)
    /\ sch_am' = [sch_am EXCEPT ![i] = CurveValue(i)]
    /\ i' = i + 1
    /\ UNCHANGED <<params, pc, err, month, perf_bal_prev, fcl_prev,
                   default_queue, results, scanned, display_df>>

\* lines 60-62: with a zero monthly rate the formula divides by 1 - 1 = 0
CurveZeroDivision ==
    /\ pc = "curve"
    /\ i <= wam
    /\ CurveRaises(i)
    /\ pc' = "error"
    /\ err' = "ZeroDivisionError"
    /\ UNCHANGED <<params, i, month, sch_am, perf_bal_prev, fcl_prev,
                   default_queue, results, scanned, display_df>>

\* lines 66-69: the builder loop is exhausted, the recursion starts
CurveExit ==
    /\ pc = "curve"
    /\ i > wam
    /\ default_queue' = <<>>
    /\ month' = 1
    /\ pc' = "loop"
    /\ UNCHANGED <<params, err, i, sch_am, perf_bal_prev, fcl_prev, results,
                   scanned, display_df>>

\* lines 69-167: one iteration of the recursion loop
MonthStep ==
    /\ pc = "loop"
    /\ InRange(month)
    /\ \E queue \in {Enqueue(default_queue, NewDef(month), month)} :
       \E rec \in {MonthRecord(queue, month)} :
           /\ default_queue' = queue
           /\ scanned' = Append(scanned, Matched(queue, month))
           /\ results' = Append(results, rec)
           /\ perf_bal_prev' = rec.PerformingBalance
           /\ fcl_prev' = rec.InForeclosure
    /\ month' = month + 1
    /\ UNCHANGED <<params, pc, err, i, sch_am, display_df>>

\* lines 169-177: the frame is built from the records and returned
Return ==
    /\ pc = "loop"
    /\ ~InRange(month)
    /\ results # <<>>
    /\ display_df' = [k \in 1..Len(results) |-> DisplayRow(results[k])]
    /\ pc' = "done"
    /\ UNCHANGED <<params, err, i, month, sch_am, perf_bal_prev, fcl_prev,
                   default_queue, results, scanned>>

\* line 174: a frame built from no records has no 'Default Rate' column
FrameKeyError ==
    /\ pc = "loop"
    /\ ~InRange(month)
    /\ results = <<>>
    /\ pc' = "error"
    /\ err' = "KeyError"
    /\ UNCHANGED <<params, i, month, sch_am, perf_bal_prev, fcl_prev,
                   default_queue, results, scanned, display_df>>

Next ==
    \/ Initialize
    \/ AllocError
    \/ CurveStep
    \/ CurveZeroDivision
    \/ CurveExit
    \/ MonthStep
    \/ Return
    \/ FrameKeyError

Spec == Init /\ [][Next]_vars

\* the interpreter runs the call to its end: a step that can be taken is taken
FairSpec == Spec /\ WF_vars(Next)

\* ------------------------------------------------------------------------
\* Properties
\* ------------------------------------------------------------------------
\* the parameter sets the specification calls valid
ValidParams ==
    /\ initial_balance > 0
    /\ wam > 0
    /\ wac > 0
    /\ 0 <= prepay_rate_smm /\ prepay_rate_smm < 100
    /\ 0 <= default_rate_mdr /\ default_rate_mdr < 100
    /\ 0 <= months_to_liquidation /\ months_to_liquidation < wam

\* the performing balance before month m, as the emitted records show it
PriorPerforming(m) ==
    IF m = 1 THEN R(initial_balance) ELSE results[m - 1].PerformingBalance

\* C1: every emitted performing balance is the previous one (the initial
\* balance in month 1) minus the month's new defaults, voluntary prepayments
\* and actual amortization, and the balance carried into the next month is the
\* one emitted last.
C1_Rollforward ==
    /\ \A m \in 1..Len(results) :
          results[m].PerformingBalance =
              RSub(RSub(RSub(PriorPerforming(m), results[m].NewDefaults),
                        results[m].VoluntaryPrepayments),
                   results[m].ActualAmort)
    /\ Len(results) > 0 => perf_bal_prev = results[Len(results)].PerformingBalance

C1_Witness ==
    /\ pc = "done"
    /\ Len(results) >= 2
    /\ RGt(results[2].NewDefaults, Zero)
    /\ RGt(results[2].VoluntaryPrepayments, Zero)
    /\ RGt(results[2].ActualAmort, Zero)

\* the pool factor before month m, 1 for month 0
PriorPoolFactor(m) ==
    IF m = 1 THEN One ELSE results[m - 1].PoolFactorField

\* C2: for valid parameters the pool factor of every month, the last one
\* included, lies in [0,1] and does not exceed the pool factor of the month
\* before.
C2_PoolFactorBounded ==
    ValidParams =>
        \A m \in 1..Len(results) :
            /\ RGe(results[m].PoolFactorField, Zero)
            /\ RLe(results[m].PoolFactorField, One)
            /\ RLe(results[m].PoolFactorField, PriorPoolFactor(m))

\* C3: for valid parameters the foreclosure balance emitted for every month
\* is >= 0.
C3_ForeclosureNonNegative ==
    ValidParams =>
        \A m \in 1..Len(results) : RGe(results[m].InForeclosure, Zero)

\* C4: for valid parameters the call takes exactly wam monthly transitions,
\* never more, ends by returning, and the records it returns carry the months
\* 1, 2, ..., wam in that order.
C4_ExactlyWamRecords ==
    /\ [](ValidParams =>
            /\ pc # "error"
            /\ Len(results) <= wam
            /\ \A m \in 1..Len(results) : results[m].Month = m
            /\ pc = "done" =>
                  /\ Len(results) = wam
                  /\ DOMAIN display_df = 1..wam
                  /\ \A m \in 1..wam : display_df[m].Month = m)
    /\ (ValidParams ~> pc = "done")

C4_Witness ==
    /\ ValidParams
    /\ pc = "done"
    /\ wam >= 3
    /\ Len(display_df) = wam

\* C5: for valid parameters every record of the default queue is selected by
\* the recovery scan in the month equal to its recovery_month and in no other
\* month, that month is the month it was enqueued plus months_to_liquidation
\* and lies within the run, and a month reports a recovered amount exactly
\* when its scan selected a record.
C5_RecoveredExactlyOnce ==
    ValidParams =>
        /\ \A k \in 1..Len(default_queue) :
              /\ \A m \in 1..Len(scanned) :
                    k \in scanned[m] <=> m = default_queue[k].recovery_month
              /\ \E o \in 1..Len(results) :
                    /\ results[o].NewDefaults = default_queue[k].amount
                    /\ default_queue[k].recovery_month = o + months_to_liquidation
              /\ pc = "done" =>
                    Cardinality({m \in 1..Len(scanned) : k \in scanned[m]}) = 1
        /\ \A m \in 1..Len(results) :
              results[m].InRecoveryMonthField # None <=> scanned[m] # {}

C5_Witness ==
    /\ ValidParams
    /\ pc = "done"
    /\ months_to_liquidation >= 1
    /\ Len(default_queue) >= 2
    /\ \A k \in 1..Len(default_queue) :
          k \in scanned[default_queue[k].recovery_month]

\* C6: the default rate of a month is MDR/100 up to month
\* wam - months_to_liquidation and 0 after it, every queued record has
\* recovery_month <= wam, and once the last month has run every queued record
\* has been selected by the scan of its recovery month.
C6_NoUnrecoverableTail ==
    /\ \A m \in 1..Len(results) :
          results[m].DefaultRate =
              IF m <= wam - months_to_liquidation
              THEN Norm(default_rate_mdr, Pct) ELSE Zero
    /\ \A k \in 1..Len(default_queue) :
          /\ default_queue[k].recovery_month <= wam
          /\ Len(results) = wam => k \in scanned[default_queue[k].recovery_month]

C6_Witness ==
    /\ pc = "done"
    /\ months_to_liquidation >= 1
    /\ default_rate_mdr > 0
    /\ Len(default_queue) >= 1
    /\ results[wam].DefaultRate = Zero
    /\ RGt(results[1].DefaultRate, Zero)
    /\ default_queue[Len(default_queue)].recovery_month = wam

\* C7: with initial_balance <= 0 or wam <= 0 the call fails before the first
\* monthly transition: no record is ever produced, nothing is returned.
C7_InvalidRejected ==
    (initial_balance <= 0 \/ wam <= 0) =>
        /\ results = <<>>
        /\ display_df = None
        /\ pc # "done"

\* the straight-line schedule: sch[k] proportional to wam - k
StraightLine ==
    \A k \in 0..wam : RMul(sch_am[k], R(wam)) = RMul(sch_am[0], R(wam - k))

\* C8: with wac = 0 and otherwise valid parameters no error is raised, the
\* finished curve is the straight-line schedule, and the call returns wam
\* records.
C8_ZeroCouponHandled ==
    (/\ wac = 0
     /\ initial_balance > 0
     /\ wam > 0
     /\ months_to_liquidation < wam) =>
        /\ pc # "error"
        /\ pc \in {"loop", "done"} => StraightLine /\ RGt(sch_am[0], Zero)
        /\ pc = "done" => Len(results) = wam

\* C9: with months_to_liquidation >= wam the call is not rejected, it raises
\* no error and returns wam records, no scan ever selects a
\* record, and principal recovery and principal loss are 0 and the recovered
\* amount absent in every month.
C9_LateLiquidationAccepted ==
    (/\ months_to_liquidation >= wam
     /\ wam > 0
     /\ wac > 0
     /\ initial_balance > 0) =>
        /\ pc # "error"
        /\ pc = "done" => Len(results) = wam
        /\ \A k \in 1..Len(default_queue) :
              default_queue[k].recovery_month > wam
        /\ \A m \in 1..Len(results) :
              /\ scanned[m] = {}
              /\ results[m].PrincipalRecovery = Zero
              /\ results[m].PrincipalLoss = Zero
              /\ results[m].InRecoveryMonthField = None

C9_Witness ==
    /\ months_to_liquidation >= wam
    /\ wam >= 2
    /\ wac > 0
    /\ initial_balance > 0
    /\ default_rate_mdr > 0
    /\ pc = "done"
    /\ Len(results) = wam

\* the curve as the builder leaves it
CurveShape ==
    /\ DOMAIN sch_am = 0..wam
    /\ sch_am[wam] = Zero
    /\ \A k \in 0..(wam - 1) :
          /\ RLe(sch_am[k + 1], sch_am[k])
          /\ RGt(sch_am[k], Zero)

\* C10: for wam > 0 and a positive monthly rate the finished curve has the
\* wam + 1 entries 0..wam, ends in sch[wam] = 0, is non-increasing and
\* strictly positive below wam, and no step after the builder loop writes it.
C10_CurveShape ==
    /\ []((wam > 0 /\ wac > 0 /\ pc \in {"loop", "done"}) => CurveShape)
    /\ [][(pc \in {"loop", "done"}) => UNCHANGED sch_am]_vars

C10_Witness ==
    /\ wam >= 3
    /\ wac > 0
    /\ pc = "done"
    /\ CurveShape
    /\ RLt(sch_am[2], sch_am[1])

\* C11: with default_rate_mdr = 0 the default queue is empty in every state
\* and every emitted month has new defaults, foreclosure balance, principal
\* recovery, principal loss and interest lost equal to 0 and no recovered
\* amount.
C11_NoDefaults ==
    default_rate_mdr = 0 =>
        /\ default_queue = <<>>
        /\ \A m \in 1..Len(results) :
              /\ results[m].NewDefaults = Zero
              /\ results[m].InForeclosure = Zero
              /\ results[m].PrincipalRecovery = Zero
              /\ results[m].PrincipalLoss = Zero
              /\ results[m].InterestLost = Zero
              /\ results[m].InRecoveryMonthField = None

C11_Witness ==
    /\ default_rate_mdr = 0
    /\ pc = "done"
    /\ wam >= 2
    /\ initial_balance > 0
    /\ RGt(results[1].PerformingBalance, Zero)
    /\ results[wam].InRecoveryMonthField = None

\* C12: with prepay_rate_smm = 0 and default_rate_mdr = 0 (and a curve, that
\* is wam > 0 and wac > 0) actual amortization equals expected amortization in
\* every month and the performing balance of month wam is exactly 0.
C12_ScheduledOnly ==
    (prepay_rate_smm = 0 /\ default_rate_mdr = 0 /\ wam > 0 /\ wac > 0) =>
        \A m \in 1..Len(results) :
            /\ results[m].ActualAmort = results[m].ExpectedAmortization
            /\ m = wam => results[m].PerformingBalance = Zero

C12_Witness ==
    /\ prepay_rate_smm = 0
    /\ default_rate_mdr = 0
    /\ initial_balance > 0
    /\ wam >= 2
    /\ pc = "done"
    /\ RGt(results[1].ActualAmort, Zero)
    /\ RGt(results[wam - 1].PerformingBalance, Zero)
    /\ results[wam].PerformingBalance = Zero

\* C13: the recursion starts from performing balance = initial balance,
\* foreclosure balance = 0 and an empty queue; for valid parameters with
\* 1 <= wam - months_to_liquidation the record of month 1 has new defaults =
\* initial_balance * MDR / 100 and expected interest = initial_balance *
\* WAC / 1200, and no recovered amount when months_to_liquidation >= 1.
C13_FirstMonth ==
    /\ (pc = "loop" /\ month = 1) =>
          /\ perf_bal_prev = R(initial_balance)
          /\ fcl_prev = Zero
          /\ default_queue = <<>>
    /\ (/\ ValidParams
        /\ 1 <= wam - months_to_liquidation
        /\ Len(results) >= 1) =>
          /\ results[1].NewDefaults = Norm(initial_balance * default_rate_mdr, Pct)
          /\ results[1].ExpectedInterest = Norm(initial_balance * wac, PctPerYear)
          /\ months_to_liquidation >= 1 =>
                results[1].InRecoveryMonthField = None

C13_Witness ==
    /\ ValidParams
    /\ wam - months_to_liquidation = 1
    /\ months_to_liquidation >= 1
    /\ default_rate_mdr > 0
    /\ Len(results) = 1
    /\ RGt(results[1].NewDefaults, Zero)
    /\ RGt(results[1].ExpectedInterest, Zero)

\* the adb of month m computed from the queue as the claim words it: the sum,
\* over the first k records, of those with recovery_month = m
RECURSIVE ClaimedAdb(_, _)
ClaimedAdb(k, m) ==
    IF k = 0 THEN Zero
    ELSE LET d == default_queue[k]
             part == IF d.recovery_month # m THEN Zero
                     ELSE IF pi_advanced
                          THEN RMul(d.amount,
                                    NpDiv(sch_am[m - 1],
                                          sch_am[m - months_to_liquidation]))
                          ELSE d.amount
         IN  RAdd(ClaimedAdb(k - 1, m), part)

\* the adb of an emitted month: 'In Recovery Month' is adb if adb > 0
EmittedAdb(m) ==
    IF results[m].InRecoveryMonthField = None THEN Zero
    ELSE results[m].InRecoveryMonthField

\* C15: the adb of every emitted month is the sum over the queued records
\* with recovery_month = m of amount * sch[m-1] / sch[m - mtl] when
\* pi_advanced and of the full amount otherwise, 0 when no record matches;
\* a record enqueued in month m with months_to_liquidation = 0 is already
\* counted in month m.
C15_AdbFormula ==
    \A m \in 1..Len(results) :
        /\ EmittedAdb(m) = ClaimedAdb(Len(default_queue), m)
        /\ scanned[m] = {} => results[m].InRecoveryMonthField = None
        /\ (months_to_liquidation = 0 /\ RGt(results[m].NewDefaults, Zero)) =>
              results[m].InRecoveryMonthField # None

C15_Witness ==
    /\ pc = "done"
    /\ pi_advanced
    /\ months_to_liquidation >= 1
    /\ \E m \in 1..Len(results) : \E k \in scanned[m] :
          /\ results[m].InRecoveryMonthField # None
          /\ RLt(results[m].InRecoveryMonthField, default_queue[k].amount)

\* C16: for valid parameters with pi_advanced, months_to_liquidation = 0
\* included, whenever the scan of month m selects a record the divisor
\* sch[m - months_to_liquidation] is strictly positive and what the record
\* adds to adb does not exceed its original amount.
C16_RecoveryBounded ==
    (ValidParams /\ pi_advanced) =>
        \A m \in 1..Len(scanned) : \A k \in scanned[m] :
            /\ RGt(sch_am[m - months_to_liquidation], Zero)
            /\ RLe(Contribution(default_queue[k], m), default_queue[k].amount)

\* equality of two doubles: nan equals nothing
REq(x, y) == ~IsNaN(x) /\ x = y

RECURSIVE TotalOf(_, _)
\* the sum of f[1], ..., f[n]
TotalOf(f, n) == IF n = 0 THEN Zero ELSE RAdd(TotalOf(f, n - 1), f[n])

\* C17: for valid parameters, in every month principal loss and principal
\* recovery are >= 0 and sum to adb, with principal loss = adb * severity /
\* 100 and principal recovery = adb - principal loss when adb > 0 and both 0
\* when adb = 0; over the run the two totals sum to the total adb.
C17_LossPlusRecovery ==
    ValidParams =>
        /\ \A m \in 1..Len(results) :
              LET adb == EmittedAdb(m)
                  loss == results[m].PrincipalLoss
                  recov == results[m].PrincipalRecovery
              IN  /\ RGe(loss, Zero)
                  /\ RGe(recov, Zero)
                  /\ REq(RAdd(loss, recov), adb)
                  /\ RGt(adb, Zero) =>
                        /\ REq(loss, RMul(adb, Norm(loss_severity, Pct)))
                        /\ REq(recov, RSub(adb, loss))
                  /\ adb = Zero => (loss = Zero /\ recov = Zero)
        /\ LET n == Len(results) IN
              REq(RAdd(TotalOf([m \in 1..n |-> results[m].PrincipalLoss], n),
                       TotalOf([m \in 1..n |-> results[m].PrincipalRecovery], n)),
                  TotalOf([m \in 1..n |-> EmittedAdb(m)], n))

\* the foreclosure balance before month m, as the emitted records show it
PriorForeclosure(m) ==
    IF m = 1 THEN Zero ELSE results[m - 1].InForeclosure

\* the amortization factor of month m read off the curve
CurveFactor(m) == RSub(One, NpDiv(sch_am[m], sch_am[m - 1]))

\* C18: with pi_advanced, in every month expected amortization = actual
\* amortization + amortization from defaults, and the foreclosure balance the
\* month emits and carries on is (new defaults + prior foreclosure - adb) *
\* (1 - amortization factor), both sides evaluated in the program's
\* arithmetic.
C18_AmortizationSplit ==
    pi_advanced =>
        /\ \A m \in 1..Len(results) :
              /\ results[m].ExpectedAmortization =
                    RAdd(results[m].ActualAmort, results[m].AmortFromDefaults)
              /\ results[m].InForeclosure =
                    RMul(RSub(RAdd(results[m].NewDefaults, PriorForeclosure(m)),
                              EmittedAdb(m)),
                         RSub(One, CurveFactor(m)))
        /\ (pc = "loop" /\ Len(results) >= 1) =>
              fcl_prev = results[Len(results)].InForeclosure

C18_Witness ==
    /\ pi_advanced
    /\ pc = "done"
    /\ wam >= 3
    /\ prepay_rate_smm > 0
    /\ RGt(results[2].AmortFromDefaults, Zero)
    /\ RGt(results[2].ActualAmort, Zero)
    /\ RGt(results[2].InForeclosure, Zero)
    /\ results[2].InRecoveryMonthField # None

RECURSIVE PendingAmount(_, _)
\* the sum of the amounts of the first k queued records with recovery_month > m
PendingAmount(k, m) ==
    IF k = 0 THEN Zero
    ELSE RAdd(PendingAmount(k - 1, m),
              IF default_queue[k].recovery_month > m
              THEN default_queue[k].amount ELSE Zero)

\* C19: for valid parameters without pi_advanced, after every month m the
\* foreclosure balance (emitted and carried) is the sum of the amounts of the
\* queued records with recovery_month > m, and it is 0 after month wam.
C19_ForeclosureIsPending ==
    (ValidParams /\ ~pi_advanced /\ Len(results) >= 1) =>
        LET m == Len(results) IN
        /\ results[m].InForeclosure = PendingAmount(Len(default_queue), m)
        /\ pc = "loop" => fcl_prev = results[m].InForeclosure
        /\ m = wam => results[m].InForeclosure = Zero

\* C20: in every state the recovery months of the queue are strictly
\* increasing in enqueue order (so no two records share one), every scan has
\* selected at most one record, and the queue is no longer than the number of
\* months executed.
C20_OneRecordPerMonth ==
    /\ \A k \in 1..(Len(default_queue) - 1) :
          default_queue[k].recovery_month < default_queue[k + 1].recovery_month
    /\ \A m \in 1..Len(scanned) : Cardinality(scanned[m]) <= 1
    /\ Len(default_queue) <= Len(results)

C20_Witness ==
    /\ pc = "done"
    /\ Len(default_queue) >= 2
    /\ Len(default_queue) < Len(results)
    /\ \E m \in 1..Len(scanned) : Cardinality(scanned[m]) = 1

====
